---- MODULE Spec2Model ----
(***************************************************************************)
(* Model of health-checker: main (command line entry), checker.CheckAll,   *)
(* checker.worker, checker.checkURL and checker.normalizeURL.              *)
(*                                                                         *)
(* Goroutines are modelled as processes that interleave at the points      *)
(* where the Go code can block or yield: channel sends and receives,       *)
(* WaitGroup.Wait, http.Client.Do and time.Sleep.                          *)
(***************************************************************************)
EXTENDS Integers, Sequences, FiniteSets, TLC

----------------------------------------------------------------------------
(* Bounds of the explored inputs *)

MaxUrls == 2
MaxConcurrency == 2
MaxRetries == 1

(* the explored runs: endpoints + workers + retries is at most MaxSize *)
MaxSize == 5

(* A run with more endpoints than hc.results has slots is represented by a
   results channel of this many slots, which MaxUrls endpoints can fill. *)
ScaledResultsCap == 1

(* Raw command line arguments: no scheme, a recognised scheme, and a string
   that url.Parse rejects once normalised (invalid percent escape). *)
RawURLs == {"a.io", "http://b.io", "%zz"}

(* The endpoints of the fair runs: one that can be requested, one that cannot *)
FairURLs == {"a.io", "%zz"}

(* HTTP status codes a server may answer with *)
StatusCodes == {200, 404}

----------------------------------------------------------------------------
(* Program constants *)

(* capacity of hc.results: make(chan Result, 100) *)
ResultsCap == 100

(* -concurrent default / nil-config default of NewHealthChecker *)
DefaultConcurrency == 5
DefaultRetries == 1

----------------------------------------------------------------------------
(* Pure helpers *)

HasPrefix(s, p) == Len(s) >= Len(p) /\ SubSeq(s, 1, Len(p)) = p

(* mutation: only the http:// scheme is recognised *)
normalizeURL_HttpOnly(url) ==
    IF ~HasPrefix(url, "http://")
    THEN "https://" \o url
    ELSE url

normalizeURL(url) ==
    IF ~HasPrefix(url, "http://") /\ ~HasPrefix(url, "https://")
    THEN "https://" \o url
    ELSE url

(* http.NewRequestWithContext fails when url.Parse rejects the address *)
ParseFails(url) == url \in {"https://%zz", "http://%zz", "%zz"}

ParseErrMsg == "invalid URL escape"
RefusedMsg == "connection refused"
TimeoutMsg == "Client.Timeout exceeded"
DeadlineMsg == "context deadline exceeded"

ErrMsg(kind) ==
    CASE kind = "refused" -> RefusedMsg
      [] kind = "timeout" -> TimeoutMsg
      [] kind = "deadline" -> DeadlineMsg
      [] kind = "reqerr" -> ParseErrMsg

(* Result literals of checkURL; Duration and Timestamp are added by Stamp *)
ErrorResult(url, msg, n) ==
    [URL |-> url, Status |-> "error", StatusCode |-> 0, Error |-> msg, Retries |-> n]

(* mutation: status 400 itself is not an error *)
StatusOf_Above400(code) == IF code > 400 THEN "error" ELSE "success"

(* mutation: only server errors count as failures *)
StatusOf_ServerOnly(code) == IF code >= 500 THEN "error" ELSE "success"

StatusOf(code) == IF code >= 400 THEN "error" ELSE "success"

(* mutation: the response literal leaves Retries unset *)
ResponseResult_NoRetries(url, code, n) ==
    [URL |-> url, Status |-> StatusOf(code), StatusCode |-> code, Error |-> "", Retries |-> 0]

ResponseResult(url, code, n) ==
    [URL |-> url, Status |-> StatusOf(code), StatusCode |-> code, Error |-> "", Retries |-> n]

NoResult == [URL |-> "", Status |-> "", StatusCode |-> 0, Error |-> "", Retries |-> 0]

(* mutation: main does not test for an empty list *)
NoURLs_Never(args) == FALSE

(* main: len(urls) == 0 prints the usage and exits with status 1 *)
NoURLs(args) == Len(args) = 0

(* main builds the Config from the flags; the pointer is a sequence of
   length <= 1, <<>> standing for nil *)
MainConfig(c, r) == << [Concurrency |-> c, Retries |-> r] >>

DefaultConfig == [Concurrency |-> DefaultConcurrency, Retries |-> DefaultRetries]

(* mutation: the defaults replace the given config *)
NewHealthChecker_AlwaysDefault(cfg) == DefaultConfig

(* NewHealthChecker: the config kept in the HealthChecker *)
NewHealthChecker(cfg) == IF cfg = <<>> THEN DefaultConfig ELSE cfg[1]

(* make(chan T, n) panics for n < 0 *)
MakeChanPanics(n) == n < 0

(* mutation: the request is built without the shared context *)
ReqCtxDone_Background(ctxDone) == FALSE

(* the context a request of checkURL is bound to: the shared ctx of CheckAll *)
ReqCtxDone(ctxDone) == ctxDone

(* what http.Client.Do can return for a request whose context is / is not done *)
Outcomes(done) ==
    IF done
    THEN {[kind |-> "deadline", code |-> 0]}
    ELSE {[kind |-> "refused", code |-> 0], [kind |-> "timeout", code |-> 0]}
         \cup {[kind |-> "resp", code |-> c] : c \in StatusCodes}

(* mutation: the results channel is closed without waiting for the workers *)
WaitReturns_NoWait(n) == TRUE

(* wg.Wait returns when the counter is zero *)
WaitReturns(n) == n = 0

----------------------------------------------------------------------------
(* State *)

VARIABLES
    urls,          \* main: the endpoint arguments
    concurrent,    \* main: -concurrent
    retries,       \* main: -retries
    mainpc,        \* position of the main goroutine
    exitCode,      \* process exit status (-1 while running)
    config,        \* hc.config
    semCap,        \* cap(hc.semaphore)
    semaphore,     \* len(hc.semaphore)
    resultsCap,    \* cap(hc.results)
    results,       \* hc.results buffer
    resultsClosed, \* hc.results closed
    wg,            \* hc.wg counter
    urlChan,       \* urlChan buffer
    urlCap,        \* cap(urlChan)
    urlChanClosed, \* urlChan closed
    allResults,    \* CheckAll: allResults
    senderpc,      \* sender goroutine: "none", "send", "done"
    senderIdx,     \* sender goroutine: urls already sent
    closerpc,      \* closer goroutine: "none", "wait", "done"
    workers,       \* worker goroutines: id -> locals
    expired,       \* ctx.Done() is closed
    norm,          \* normalizeURL alone: an address and its successive images
    stats,         \* PrintStats alone: the list and what is printed
    chk            \* checkURL alone, with a clock: its locals

vars == << urls, concurrent, retries, mainpc, exitCode, config, semCap, resultsCap, semaphore,
           results, resultsClosed, wg, urlChan, urlCap, urlChanClosed, allResults,
           senderpc, senderIdx, closerpc, workers, expired, norm, stats, chk >>

inputs == << urls, concurrent, retries >>
hcVars == << config, semCap, resultsCap >>
aux == << norm, stats, chk >>

SeqsUpTo(S, n) == UNION { [1..k -> S] : k \in 0..n }

NoConfig == [Concurrency |-> 0, Retries |-> 0]

NewWorker ==
    [pc |-> "recv", url |-> "", attempt |-> 0, lastErr |-> "", result |-> NoResult,
     hist |-> <<>>]

NoStats == [in |-> <<>>, pc |-> "none", out |-> <<>>]

NoCheck == [pc |-> "none"]

(* nothing of a CheckAll run exists yet *)
NoRun ==
    /\ semCap = 0
    /\ semaphore = 0
    /\ results = <<>>
    /\ resultsClosed = FALSE
    /\ wg = 0
    /\ urlChan = <<>>
    /\ urlCap = 0
    /\ urlChanClosed = FALSE
    /\ allResults = <<>>
    /\ senderpc = "none"
    /\ senderIdx = 0
    /\ closerpc = "none"
    /\ workers = <<>>

InitWith(cap, raw) ==
    /\ resultsCap = cap
    /\ urls \in SeqsUpTo(raw, MaxUrls)
    /\ concurrent \in -1..MaxConcurrency
    /\ retries \in 0..MaxRetries
    /\ Len(urls) + concurrent + retries <= MaxSize
    /\ mainpc = "main"
    /\ exitCode = -1
    /\ config = NoConfig
    /\ expired = FALSE
    /\ NoRun
    /\ norm = <<>>
    /\ stats = NoStats
    /\ chk = NoCheck

Init == InitWith(ResultsCap, RawURLs)

(* the same program with the results channel scaled to the explored lists *)
ScaledInit == \E cap \in {ResultsCap, ScaledResultsCap} : InitWith(cap, FairURLs)

Running == mainpc \in {"collect", "returned"}

WorkerIds == DOMAIN workers

InCheck(w) == workers[w].pc \in {"do", "sleep"}

InFlight == {w \in WorkerIds : InCheck(w)}

(* checks whose checkURL has returned *)
Completed ==
    Len(allResults) + Len(results) + Cardinality({w \in WorkerIds : workers[w].pc = "send"})

----------------------------------------------------------------------------
(* main *)

(* main: no endpoint -> usage, os.Exit(1) *)
MainUsage ==
    /\ mainpc = "main"
    /\ NoURLs(urls)
    /\ mainpc' = "exit"
    /\ exitCode' = 1
    /\ UNCHANGED << aux, inputs, hcVars, semaphore, results, resultsClosed, wg, urlChan,
                    urlCap, urlChanClosed, allResults, senderpc, senderIdx, closerpc,
                    workers, expired >>

(* main: NewHealthChecker panics in make(chan struct{}, n) for n < 0 *)
MainPanic ==
    /\ mainpc = "main"
    /\ ~NoURLs(urls)
    /\ MakeChanPanics(NewHealthChecker(MainConfig(concurrent, retries)).Concurrency)
    /\ mainpc' = "panic"
    /\ exitCode' = 2
    /\ UNCHANGED << aux, inputs, hcVars, semaphore, results, resultsClosed, wg, urlChan,
                    urlCap, urlChanClosed, allResults, senderpc, senderIdx, closerpc,
                    workers, expired >>

(* main: NewHealthChecker, then CheckAll up to its collecting loop: the
   context, urlChan, wg.Add, and the three kinds of goroutines are started *)
MainCheckAll ==
    /\ mainpc = "main"
    /\ ~NoURLs(urls)
    /\ LET c == NewHealthChecker(MainConfig(concurrent, retries)) IN
        /\ ~MakeChanPanics(c.Concurrency)
        /\ config' = c
        /\ semCap' = c.Concurrency
        /\ resultsCap' = resultsCap
        /\ wg' = wg + c.Concurrency
        /\ workers' = [w \in 1..c.Concurrency |-> NewWorker]
    /\ urlCap' = Len(urls)
    /\ senderpc' = "send"
    /\ closerpc' = "wait"
    /\ mainpc' = "collect"
    /\ UNCHANGED << aux, inputs, exitCode, semaphore, results, resultsClosed, urlChan,
                    urlChanClosed, allResults, senderIdx, expired >>

(* CheckAll: for result := range hc.results { append } *)
Collect ==
    /\ mainpc = "collect"
    /\ results # <<>>
    /\ allResults' = Append(allResults, Head(results))
    /\ results' = Tail(results)
    /\ UNCHANGED << aux, inputs, hcVars, mainpc, exitCode, semaphore, resultsClosed, wg,
                    urlChan, urlCap, urlChanClosed, senderpc, senderIdx, closerpc,
                    workers, expired >>

(* CheckAll: the range loop ends on the closed, drained channel; return *)
CollectReturn ==
    /\ mainpc = "collect"
    /\ results = <<>>
    /\ resultsClosed
    /\ mainpc' = "returned"
    /\ UNCHANGED << aux, inputs, hcVars, exitCode, semaphore, results, resultsClosed, wg,
                    urlChan, urlCap, urlChanClosed, allResults, senderpc, senderIdx,
                    closerpc, workers, expired >>

(* main: output and statistics, then the process ends *)
MainExit ==
    /\ mainpc = "returned"
    /\ mainpc' = "exit"
    /\ exitCode' = 0
    /\ UNCHANGED << aux, inputs, hcVars, semaphore, results, resultsClosed, wg, urlChan,
                    urlCap, urlChanClosed, allResults, senderpc, senderIdx, closerpc,
                    workers, expired >>

(* the overall deadline of the context of CheckAll passes; the context is read
   by the attempts only, so the expiry is left out once every check is done *)
Expire ==
    /\ mainpc = "collect"
    /\ ~expired
    /\ Completed < Len(urls)
    /\ expired' = TRUE
    /\ UNCHANGED << aux, inputs, hcVars, mainpc, exitCode, semaphore, results,
                    resultsClosed, wg, urlChan, urlCap, urlChanClosed, allResults,
                    senderpc, senderIdx, closerpc, workers >>

----------------------------------------------------------------------------
(* sender and closer goroutines of CheckAll *)

SenderSend ==
    /\ Running
    /\ senderpc = "send"
    /\ senderIdx < Len(urls)
    /\ Len(urlChan) < urlCap
    /\ urlChan' = Append(urlChan, normalizeURL(urls[senderIdx + 1]))
    /\ senderIdx' = senderIdx + 1
    /\ UNCHANGED << aux, inputs, hcVars, mainpc, exitCode, semaphore, results,
                    resultsClosed, wg, urlCap, urlChanClosed, allResults, senderpc,
                    closerpc, workers, expired >>

(* mutation: the sender ends without close(urlChan) *)
SenderClose_NoClose ==
    /\ Running
    /\ senderpc = "send"
    /\ senderIdx = Len(urls)
    /\ senderpc' = "done"
    /\ UNCHANGED << aux, inputs, hcVars, mainpc, exitCode, semaphore, results,
                    resultsClosed, wg, urlChan, urlCap, urlChanClosed, allResults,
                    senderIdx, closerpc, workers, expired >>

SenderClose ==
    /\ Running
    /\ senderpc = "send"
    /\ senderIdx = Len(urls)
    /\ urlChanClosed' = TRUE
    /\ senderpc' = "done"
    /\ UNCHANGED << aux, inputs, hcVars, mainpc, exitCode, semaphore, results,
                    resultsClosed, wg, urlChan, urlCap, allResults, senderIdx,
                    closerpc, workers, expired >>

(* mutation: the closer does not wait for the last worker *)
CloserClose_Early ==
    /\ Running
    /\ closerpc = "wait"
    /\ wg <= 1
    /\ resultsClosed' = TRUE
    /\ closerpc' = "done"
    /\ UNCHANGED << aux, inputs, hcVars, mainpc, exitCode, semaphore, results, wg,
                    urlChan, urlCap, urlChanClosed, allResults, senderpc, senderIdx,
                    workers, expired >>

CloserClose ==
    /\ Running
    /\ closerpc = "wait"
    /\ WaitReturns(wg)
    /\ resultsClosed' = TRUE
    /\ closerpc' = "done"
    /\ UNCHANGED << aux, inputs, hcVars, mainpc, exitCode, semaphore, results, wg,
                    urlChan, urlCap, urlChanClosed, allResults, senderpc, senderIdx,
                    workers, expired >>

----------------------------------------------------------------------------
(* worker goroutine *)

SetW(w, r) == [workers EXCEPT ![w] = r]

(* for url := range urls: receive the next endpoint *)
WorkerRecv(w) ==
    /\ Running
    /\ workers[w].pc = "recv"
    /\ urlChan # <<>>
    /\ urlChan' = Tail(urlChan)
    /\ workers' = SetW(w, [workers[w] EXCEPT !.pc = "acquire", !.url = Head(urlChan)])
    /\ UNCHANGED << aux, inputs, hcVars, mainpc, exitCode, semaphore, results,
                    resultsClosed, wg, urlCap, urlChanClosed, allResults, senderpc,
                    senderIdx, closerpc, expired >>

(* the range loop ends on the closed, drained urlChan; defer hc.wg.Done() *)
WorkerExit(w) ==
    /\ Running
    /\ workers[w].pc = "recv"
    /\ urlChan = <<>>
    /\ urlChanClosed
    /\ wg' = wg - 1
    /\ workers' = SetW(w, [workers[w] EXCEPT !.pc = "exited"])
    /\ UNCHANGED << aux, inputs, hcVars, mainpc, exitCode, semaphore, results,
                    resultsClosed, urlChan, urlCap, urlChanClosed, allResults,
                    senderpc, senderIdx, closerpc, expired >>

(* mutation: the loop allows one attempt more *)
LoopStep_OneMore(me) ==
    IF me.attempt > config.Retries + 1
    THEN [me EXCEPT !.pc = "send",
                    !.result = ErrorResult(me.url, me.lastErr, config.Retries)]
    ELSE IF ParseFails(me.url)
    THEN [me EXCEPT !.lastErr = ParseErrMsg, !.attempt = me.attempt + 1,
                    !.hist = Append(me.hist, [kind |-> "reqerr", code |-> 0])]
    ELSE [me EXCEPT !.pc = "do"]

(* checkURL, head of one iteration: the loop condition, then
   http.NewRequestWithContext; a request that cannot be built continues with
   the next iteration at once; after the loop the final Result is returned *)
LoopStep(me) ==
    IF me.attempt > config.Retries
    THEN [me EXCEPT !.pc = "send",
                    !.result = ErrorResult(me.url, me.lastErr, config.Retries)]
    ELSE IF ParseFails(me.url)
    THEN [me EXCEPT !.lastErr = ParseErrMsg, !.attempt = me.attempt + 1,
                    !.hist = Append(me.hist, [kind |-> "reqerr", code |-> 0])]
    ELSE [me EXCEPT !.pc = "do"]

(* checkURL runs without yielding until a request is in flight or it returns *)
RECURSIVE RunLoop(_)
RunLoop(me) == IF me.pc = "loop" THEN RunLoop(LoopStep(me)) ELSE me

(* hc.semaphore <- struct{}{}, then checkURL starts: attempt := 0 *)
WorkerAcquire(w) ==
    /\ Running
    /\ workers[w].pc = "acquire"
    /\ semaphore < semCap
    /\ semaphore' = semaphore + 1
    /\ workers' = SetW(w, RunLoop([workers[w] EXCEPT !.pc = "loop", !.attempt = 0,
                                                     !.lastErr = "", !.hist = <<>>]))
    /\ UNCHANGED << aux, inputs, hcVars, mainpc, exitCode, results, resultsClosed, wg,
                    urlChan, urlCap, urlChanClosed, allResults, senderpc, senderIdx,
                    closerpc, expired >>

(* mutation: a failed attempt is never retried *)
DoStep_NoRetry(me, o) ==
    IF o.kind = "resp"
    THEN [me EXCEPT !.pc = "send", !.hist = Append(me.hist, o),
                    !.result = ResponseResult(me.url, o.code, me.attempt)]
    ELSE [me EXCEPT !.pc = "send", !.hist = Append(me.hist, o),
                    !.lastErr = ErrMsg(o.kind),
                    !.result = ErrorResult(me.url, ErrMsg(o.kind), me.attempt)]

(* checkURL: hc.client.Do returns with outcome o *)
DoStep(me, o) ==
    IF o.kind = "resp"
    THEN [me EXCEPT !.pc = "send", !.hist = Append(me.hist, o),
                    !.result = ResponseResult(me.url, o.code, me.attempt)]
    ELSE IF me.attempt = config.Retries
    THEN [me EXCEPT !.pc = "send", !.hist = Append(me.hist, o),
                    !.lastErr = ErrMsg(o.kind),
                    !.result = ErrorResult(me.url, ErrMsg(o.kind), me.attempt)]
    ELSE [me EXCEPT !.pc = "sleep", !.hist = Append(me.hist, o),
                    !.lastErr = ErrMsg(o.kind)]

AttemptEnd(w) ==
    /\ Running
    /\ workers[w].pc = "do"
    /\ \E o \in Outcomes(ReqCtxDone(expired)) :
          workers' = SetW(w, DoStep(workers[w], o))
    /\ UNCHANGED << aux, inputs, hcVars, mainpc, exitCode, semaphore, results,
                    resultsClosed, wg, urlChan, urlCap, urlChanClosed, allResults,
                    senderpc, senderIdx, closerpc, expired >>

(* checkURL: time.Sleep((attempt+1) * 500ms) ends; continue *)
SleepEnd(w) ==
    /\ Running
    /\ workers[w].pc = "sleep"
    /\ workers' = SetW(w, RunLoop([workers[w] EXCEPT !.pc = "loop",
                                                     !.attempt = workers[w].attempt + 1,
                                                     !.hist = Append(workers[w].hist,
                                                                     [kind |-> "sleep", code |-> 0])]))
    /\ UNCHANGED << aux, inputs, hcVars, mainpc, exitCode, semaphore, results,
                    resultsClosed, wg, urlChan, urlCap, urlChanClosed, allResults,
                    senderpc, senderIdx, closerpc, expired >>

(* mutation: a worker that got a failure does not report it *)
WorkerSend_DropFailure(w) ==
    /\ Running
    /\ workers[w].pc = "send"
    /\ IF resultsClosed
       THEN /\ mainpc' = "panic"
            /\ exitCode' = 2
            /\ UNCHANGED << results, workers >>
       ELSE /\ Len(results) < resultsCap
            /\ results' = IF workers[w].result.Status = "error"
                          THEN results
                          ELSE Append(results, workers[w].result)
            /\ workers' = SetW(w, [NewWorker EXCEPT !.pc = "release"])
            /\ UNCHANGED << mainpc, exitCode >>
    /\ UNCHANGED << aux, inputs, hcVars, semaphore, resultsClosed, wg, urlChan, urlCap,
                    urlChanClosed, allResults, senderpc, senderIdx, closerpc, expired >>

(* hc.results <- result; a send on a closed channel panics *)
WorkerSend(w) ==
    /\ Running
    /\ workers[w].pc = "send"
    /\ IF resultsClosed
       THEN /\ mainpc' = "panic"
            /\ exitCode' = 2
            /\ UNCHANGED << results, workers >>
       ELSE /\ Len(results) < resultsCap
            /\ results' = Append(results, workers[w].result)
            /\ workers' = SetW(w, [NewWorker EXCEPT !.pc = "release"])
            /\ UNCHANGED << mainpc, exitCode >>
    /\ UNCHANGED << aux, inputs, hcVars, semaphore, resultsClosed, wg, urlChan, urlCap,
                    urlChanClosed, allResults, senderpc, senderIdx, closerpc, expired >>

(* <-hc.semaphore *)
WorkerRelease(w) ==
    /\ Running
    /\ workers[w].pc = "release"
    /\ semaphore > 0
    /\ semaphore' = semaphore - 1
    /\ workers' = SetW(w, [workers[w] EXCEPT !.pc = "recv"])
    /\ UNCHANGED << aux, inputs, hcVars, mainpc, exitCode, results, resultsClosed, wg,
                    urlChan, urlCap, urlChanClosed, allResults, senderpc, senderIdx,
                    closerpc, expired >>

Worker(w) ==
    \/ WorkerRecv(w)
    \/ WorkerExit(w)
    \/ WorkerAcquire(w)
    \/ AttemptEnd(w)
    \/ SleepEnd(w)
    \/ WorkerSend(w)
    \/ WorkerRelease(w)

----------------------------------------------------------------------------

Next ==
    \/ MainUsage
    \/ MainPanic
    \/ MainCheckAll
    \/ Collect
    \/ CollectReturn
    \/ MainExit
    \/ Expire
    \/ SenderSend
    \/ SenderClose
    \/ CloserClose
    \/ \E w \in WorkerIds : WorkerRecv(w)
    \/ \E w \in WorkerIds : WorkerExit(w)
    \/ \E w \in WorkerIds : WorkerAcquire(w)
    \/ \E w \in WorkerIds : AttemptEnd(w)
    \/ \E w \in WorkerIds : SleepEnd(w)
    \/ \E w \in WorkerIds : WorkerSend(w)
    \/ \E w \in WorkerIds : WorkerRelease(w)

Spec == Init /\ [][Next]_vars

(* every step but the passing of the deadline *)
Progress ==
    \/ MainUsage
    \/ MainPanic
    \/ MainCheckAll
    \/ Collect
    \/ CollectReturn
    \/ MainExit
    \/ SenderSend
    \/ SenderClose
    \/ CloserClose
    \/ \E w \in WorkerIds : Worker(w)

(* fair scheduling of the goroutines; every attempt and every sleep ends *)
FairSpec == ScaledInit /\ [][Next]_vars /\ WF_vars(Progress)

----------------------------------------------------------------------------
(* Properties *)

Count(seq, x) == Cardinality({i \in DOMAIN seq : seq[i] = x})

NormalizedInputs == [i \in DOMAIN urls |-> normalizeURL(urls[i])]

ResultURLs == [i \in DOMAIN allResults |-> allResults[i].URL]

(* endpoints not yet handed to a worker, being checked, or reported *)
Unsent == Len(urls) - senderIdx
Held == Cardinality({w \in WorkerIds : workers[w].pc \in {"acquire", "do", "sleep", "send"}})

Returned == mainpc = "returned" \/ (mainpc = "exit" /\ exitCode = 0)

(* the attempts of the check a worker is in: its history without the sleeps *)
Attempts(h) == SelectSeq(h, LAMBDA e : e.kind # "sleep")

FailureKinds == {"refused", "timeout", "deadline", "reqerr"}

AllFailed(h) == \A i \in DOMAIN h : h[i].kind # "resp"

IsFailure(r) == r.Status = "error" /\ r.Error # ""

(* C1: with at least one endpoint and maxConcurrency >= 1, every endpoint is
   at every moment in exactly one place (unsent, queued, held by a worker,
   in the results channel or collected), and when CheckAll has returned the
   collected Results are as many as the endpoints and their URLs are, as a
   multiset, the normalized inputs. *)
C1_OneResultPerEndpoint ==
    (concurrent >= 1 /\ urls # <<>> /\ mainpc \in {"collect", "returned", "exit"}) =>
        /\ Unsent + Len(urlChan) + Held + Len(results) + Len(allResults) = Len(urls)
        /\ Returned =>
              /\ Len(allResults) = Len(urls)
              /\ \A i \in DOMAIN urls :
                    Count(ResultURLs, normalizeURL(urls[i]))
                        = Count(NormalizedInputs, normalizeURL(urls[i]))

C1_Witness ==
    /\ mainpc = "returned"
    /\ concurrent = 2
    /\ Len(urls) = 2
    /\ urls[1] = urls[2]
    /\ Len(allResults) = 2

(* C2: while CheckAll runs, the workers inside checkURL and the occupied
   semaphore slots are each at most the requested maxConcurrency. *)
C2_BoundedConcurrency ==
    Running =>
        /\ Cardinality(InFlight) <= concurrent
        /\ semaphore <= concurrent

C2_Witness ==
    /\ Running
    /\ concurrent = 1
    /\ Cardinality(InFlight) = 1
    /\ semaphore = 1
    /\ urlChan # <<>>

(* C3: with at least one endpoint and maxConcurrency >= 1, under fair
   scheduling CheckAll returns, and no state before the return is a deadlock:
   some goroutine can always take a step, also when the results channel is
   full and when there are more workers than endpoints. *)
C3_Terminates ==
    /\ [](  (concurrent >= 1 /\ urls # <<>> /\ mainpc \in {"main", "collect"})
            => ENABLED Progress)
    /\ ((concurrent >= 1 /\ urls # <<>>) ~> Returned)

C3_Witness ==
    /\ mainpc = "returned"
    /\ Len(urls) > resultsCap
    /\ Len(allResults) = Len(urls)

(* C4: once the deadline has expired, every check that returns (the checks in
   flight or pending at the expiry) returns a Failure with a non-empty Error,
   the deadline error unless the request could not even be built; the
   returned list has one Result per endpoint; and CheckAll still returns. *)
C4_ExpiryFailsTheRest ==
    /\ [][\A w \in WorkerIds :
            (expired /\ workers[w].pc \in {"acquire", "do", "sleep"}
                     /\ workers'[w].pc = "send")
            => /\ IsFailure(workers'[w].result)
               /\ ~ParseFails(workers[w].url) => workers'[w].result.Error = DeadlineMsg]_vars
    /\ []((expired /\ Returned /\ concurrent >= 1) => Len(allResults) = Len(urls))
    /\ ((expired /\ concurrent >= 1) ~> Returned)

C4_Witness ==
    /\ expired
    /\ mainpc = "returned"
    /\ Len(allResults) = 2
    /\ \A i \in DOMAIN allResults : allResults[i].Error = DeadlineMsg

(* C5 as stated: when every attempt of a check fails, checkURL makes
   maxRetries + 1 attempts and returns a Failure whose Retries field is
   maxRetries + 1. *)
C5_Original ==
    \A w \in WorkerIds :
        (workers[w].pc = "send" /\ AllFailed(workers[w].hist)) =>
            /\ Len(Attempts(workers[w].hist)) = config.Retries + 1
            /\ IsFailure(workers[w].result)
            /\ workers[w].result.Retries = config.Retries + 1

(* C5 amended: when every attempt of a check fails, checkURL makes
   maxRetries + 1 attempts and returns a Failure whose Retries field is
   maxRetries, the number of attempts after the first. *)
C5_AllFail ==
    \A w \in WorkerIds :
        (workers[w].pc = "send" /\ AllFailed(workers[w].hist)) =>
            /\ Len(Attempts(workers[w].hist)) = config.Retries + 1
            /\ IsFailure(workers[w].result)
            /\ workers[w].result.Retries = config.Retries

C5_Witness ==
    \E w \in WorkerIds :
        /\ workers[w].pc = "send"
        /\ config.Retries = 1
        /\ Len(workers[w].hist) = 3
        /\ workers[w].hist[1].kind = "refused"
        /\ workers[w].hist[3].kind = "timeout"
        /\ workers[w].result.Retries = 1

FailThenSucceed(h) ==
    /\ Len(h) = 3
    /\ h[1].kind \in {"refused", "timeout"}
    /\ h[2].kind = "sleep"
    /\ h[3].kind = "resp"
    /\ h[3].code < 400

(* C6 as stated: a first attempt that fails at transport level followed by a
   second that completes with a code below 400 gives a Success whose Retries
   field is 2. *)
C6_Original ==
    \A w \in WorkerIds :
        (workers[w].pc = "send" /\ FailThenSucceed(workers[w].hist)) =>
            /\ workers[w].result.Status = "success"
            /\ workers[w].result.Retries = 2

(* C6 amended: a first attempt that fails at transport level followed by a
   second that completes with a code below 400 gives a Success whose Retries
   field is 1, the number of attempts after the first. *)
C6_FailThenSucceed ==
    \A w \in WorkerIds :
        (workers[w].pc = "send" /\ FailThenSucceed(workers[w].hist)) =>
            /\ config.Retries >= 1
            /\ workers[w].result.Status = "success"
            /\ workers[w].result.StatusCode = workers[w].hist[3].code
            /\ workers[w].result.Error = ""
            /\ workers[w].result.Retries = 1

C6_Witness ==
    \E w \in WorkerIds :
        /\ workers[w].pc = "send"
        /\ FailThenSucceed(workers[w].hist)
        /\ workers[w].result.Status = "success"

(* C7: a response with a status code >= 400 is the last thing that happens in
   its check: checkURL has returned, with Status "error", that status code,
   an empty Error and the index of the attempt; on the first attempt that is
   a single attempt. *)
C7_HTTPErrorNotRetried ==
    \A w \in WorkerIds :
        \A i \in DOMAIN workers[w].hist :
            (workers[w].hist[i].kind = "resp" /\ workers[w].hist[i].code >= 400) =>
                /\ i = Len(workers[w].hist)
                /\ workers[w].pc = "send"
                /\ workers[w].result =
                      [URL |-> workers[w].url, Status |-> "error",
                       StatusCode |-> workers[w].hist[i].code, Error |-> "",
                       Retries |-> Len(Attempts(workers[w].hist)) - 1]
                /\ (i = 1 => Len(Attempts(workers[w].hist)) = 1)

C7_Witness ==
    \E w \in WorkerIds :
        /\ workers[w].pc = "send"
        /\ config.Retries = 1
        /\ workers[w].hist = << [kind |-> "resp", code |-> 404] >>
        /\ workers[w].result.StatusCode = 404

(* C8 as stated: an attempt that fails by the overall deadline or by the
   per-attempt timeout is the last thing that happens in its check: no sleep,
   no further attempt, the Failure is returned at once. *)
C8_Original ==
    \A w \in WorkerIds :
        \A i \in DOMAIN workers[w].hist :
            workers[w].hist[i].kind \in {"deadline", "timeout"} =>
                /\ i = Len(workers[w].hist)
                /\ workers[w].pc = "send"

(* C9 as stated: with maxConcurrency <= 0 the run is rejected before any
   work is dispatched: CheckAll never runs, nothing is queued, and the
   process does not end normally. *)
C9_Original ==
    (concurrent <= 0 /\ urls # <<>>) =>
        /\ mainpc \notin {"collect", "returned"}
        /\ senderIdx = 0
        /\ exitCode # 0

(* C10: with an empty endpoint list main can only print the usage and exit
   with status 1: that step is possible at once, no HealthChecker is built,
   no goroutine is started and nothing is queued or checked. *)
C10_EmptyListRejected ==
    urls = <<>> =>
        /\ mainpc \in {"main", "exit"}
        /\ mainpc = "main" => ENABLED MainUsage
        /\ mainpc = "exit" => exitCode = 1
        /\ workers = <<>>
        /\ senderpc = "none"
        /\ closerpc = "none"
        /\ wg = 0
        /\ allResults = <<>>

C10_Witness ==
    /\ urls = <<>>
    /\ mainpc = "exit"
    /\ exitCode = 1

(* the Result that follows from the attempts of one check alone *)
OwnResult(url, h) ==
    LET last == h[Len(h)]
        n == Len(Attempts(h)) - 1
    IN  IF last.kind = "resp"
        THEN [URL |-> url, Status |-> IF last.code < 400 THEN "success" ELSE "error",
              StatusCode |-> last.code, Error |-> "", Retries |-> n]
        ELSE [URL |-> url, Status |-> "error", StatusCode |-> 0,
              Error |-> ErrMsg(last.kind), Retries |-> n]

Reported == results \o allResults

(* C11: with maxConcurrency >= 1, a check that ends as a Failure changes
   nothing but its own worker: the other workers, the queue, the reported
   Results and main stay as they are and the process does not stop; the
   Result of every check is the one its own attempts give; no endpoint is
   reported more often than it was submitted; and the returned list has a
   Result for every submitted endpoint, failed or not. *)
C11_FailureStaysLocal ==
    /\ [][\A w \in WorkerIds :
            (workers[w].pc \in {"acquire", "do", "sleep"} /\ workers'[w].pc = "send"
                /\ workers'[w].result.Status = "error")
            => /\ \A v \in WorkerIds \ {w} : workers'[v] = workers[v]
               /\ << urlChan, urlChanClosed, results, resultsClosed, allResults, mainpc,
                     exitCode, wg >>' =
                  << urlChan, urlChanClosed, results, resultsClosed, allResults, mainpc,
                     exitCode, wg >>]_vars
    /\ [](concurrent >= 1 =>
            /\ \A w \in WorkerIds :
                  workers[w].pc = "send" =>
                      workers[w].result = OwnResult(workers[w].url, workers[w].hist)
            /\ mainpc = "panic" => workers = <<>>
            /\ \A i \in DOMAIN Reported :
                  Count([j \in DOMAIN Reported |-> Reported[j].URL], Reported[i].URL)
                      <= Count(NormalizedInputs, Reported[i].URL)
            /\ Returned =>
                  \A i \in DOMAIN urls :
                      \E j \in DOMAIN allResults : allResults[j].URL = normalizeURL(urls[i]))

C11_Witness ==
    /\ mainpc = "returned"
    /\ Len(allResults) = 2
    /\ allResults[1].Status = "error"
    /\ allResults[1].Error = RefusedMsg
    /\ allResults[2].Status = "success"
    /\ allResults[1].URL # allResults[2].URL

(* C12: with maxConcurrency = 1 the checks are serialized: at most one worker
   is inside checkURL or holds an unreported Result, at most one semaphore
   slot is taken, and a check starts only when no other check is in flight.
   (That N checks are in flight together with maxConcurrency = N on N
   endpoints is the reachable state C12_Witness.) *)
C12_GateBothWays ==
    /\ []((Running /\ concurrent = 1) =>
            /\ Cardinality({w \in WorkerIds : workers[w].pc \in {"do", "sleep", "send"}}) <= 1
            /\ semaphore <= 1)
    /\ [][\A w \in WorkerIds :
            (concurrent = 1 /\ workers[w].pc = "acquire" /\ workers'[w].pc # "acquire")
            => \A v \in WorkerIds \ {w} : workers[v].pc \notin {"do", "sleep", "send", "release"}]_vars

C12_Witness ==
    /\ concurrent = 2
    /\ Len(urls) = 2
    /\ Cardinality(InFlight) = 2
    /\ \A w \in WorkerIds : workers[w].pc = "do"

(* C15: a worker takes an endpoint only when it holds none; the first
   request of a check is attempt 0 with an empty history; a request in flight
   ends in a sleep or in the return of checkURL with the attempt index
   unchanged; a sleep is followed by the request of the next index; the index
   never exceeds maxRetries, so a check has at most maxRetries + 1 attempts;
   and a check that has returned makes no further attempt: its Result is sent
   once, as it is, and the worker goes on to the next endpoint. *)
C15_EndpointStateMachine ==
    /\ [][\A w \in WorkerIds :
            LET a == workers[w]
                b == workers'[w]
            IN  /\ b.pc = "acquire" /\ a.pc # "acquire" => a.pc = "recv"
                /\ a.pc = "acquire" /\ b.pc # "acquire" =>
                      /\ b.pc \in {"do", "send"}
                      /\ b.url = a.url
                      /\ b.pc = "do" => (b.attempt = 0 /\ b.hist = <<>>)
                /\ a.pc = "do" /\ b # a =>
                      /\ b.pc \in {"sleep", "send"}
                      /\ b.attempt = a.attempt
                      /\ b.url = a.url
                      /\ Len(b.hist) = Len(a.hist) + 1
                /\ a.pc = "sleep" /\ b # a =>
                      /\ b.pc = "do"
                      /\ b.attempt = a.attempt + 1
                      /\ b.url = a.url
                /\ a.pc = "send" /\ b # a =>
                      /\ b.pc = "release"
                      /\ results' = Append(results, a.result)
                /\ a.pc = "release" /\ b # a => b.pc = "recv"]_vars
    /\ [](\A w \in WorkerIds :
            /\ workers[w].pc \in {"do", "sleep"} =>
                  /\ workers[w].attempt <= config.Retries
                  /\ Len(Attempts(workers[w].hist)) =
                        workers[w].attempt + (IF workers[w].pc = "sleep" THEN 1 ELSE 0)
            /\ workers[w].pc = "send" =>
                  /\ Len(Attempts(workers[w].hist)) \in 1..(config.Retries + 1)
                  /\ workers[w].result.Status \in {"success", "error"})

C15_Witness ==
    \E w \in WorkerIds :
        /\ workers[w].pc = "do"
        /\ workers[w].attempt = 1
        /\ config.Retries = 1
        /\ Len(allResults) = 1

(* C18 as stated: when CheckAll has returned, the wait-group counter, the
   semaphore and the results channel of the HealthChecker are as
   NewHealthChecker left them, ready for a further CheckAll. *)
C18_Original ==
    (Returned /\ concurrent >= 1) =>
        /\ wg = 0
        /\ semaphore = 0
        /\ results = <<>>
        /\ ~resultsClosed

(* C19: with maxConcurrency >= 1, the results channel is closed in one step
   of the closer goroutine and only when every worker has exited with its
   Results sent; no send meets the closed channel; and when CheckAll has
   returned every worker has exited, the sender has closed the drained URL
   queue, no semaphore slot is held and the results channel is empty. *)
C19_CleanShutdown ==
    /\ [][resultsClosed' # resultsClosed =>
            (~resultsClosed /\ closerpc = "wait" /\ closerpc' = "done")]_vars
    /\ [](concurrent >= 1 =>
            /\ resultsClosed =>
                  /\ \A w \in WorkerIds : workers[w].pc = "exited"
                  /\ wg = 0
                  /\ Len(results) + Len(allResults) = Len(urls)
            /\ mainpc = "panic" => workers = <<>>
            /\ Returned =>
                  /\ \A w \in WorkerIds : workers[w].pc = "exited"
                  /\ urlChanClosed /\ urlChan = <<>> /\ senderpc = "done"
                  /\ semaphore = 0
                  /\ results = <<>>)

C19_Witness ==
    /\ mainpc = "returned"
    /\ concurrent = 2
    /\ Len(allResults) = 2
    /\ resultsClosed
    /\ \A w \in WorkerIds : workers[w].pc = "exited"

----------------------------------------------------------------------------
(* normalizeURL by itself *)

run == << urls, concurrent, retries, mainpc, exitCode, config, semCap, resultsCap,
          semaphore, results, resultsClosed, wg, urlChan, urlCap, urlChanClosed,
          allResults, senderpc, senderIdx, closerpc, workers, expired >>

(* no command line is being served *)
NoMain ==
    /\ urls = <<>>
    /\ concurrent = 1
    /\ retries = 0
    /\ resultsCap = ResultsCap
    /\ mainpc = "main"
    /\ exitCode = -1
    /\ NoRun

MaxNormCalls == 2

NormPrefixes ==
    {"", "http://", "https://", "http:/", "https:/", "HTTP://", "ftp://", "http", "//",
     " https://"}

NormRests == {"", "a.io", "b.io/x?y", "http://c.io"}

NormInputs == {p \o r : p \in NormPrefixes, r \in NormRests}

NormInit ==
    /\ NoMain
    /\ config = NoConfig
    /\ expired = FALSE
    /\ norm \in {<< x >> : x \in NormInputs}
    /\ stats = NoStats
    /\ chk = NoCheck

(* the function is applied to its last image *)
Normalize ==
    /\ norm # <<>>
    /\ Len(norm) <= MaxNormCalls
    /\ norm' = Append(norm, normalizeURL(norm[Len(norm)]))
    /\ UNCHANGED << run, stats, chk >>

NormNext == Normalize

NormSpec == NormInit /\ [][NormNext]_vars

(* C13: normalizeURL(x) is x when x begins with "http://" or "https://" and
   "https://" followed by x otherwise, and applying normalizeURL again to the
   image changes nothing. *)
C13_NormalizeIdempotent ==
    Len(norm) >= 2 =>
        LET x == norm[1]
            y == norm[2]
            hasScheme == \/ (Len(x) >= 7 /\ SubSeq(x, 1, 7) = "http://")
                         \/ (Len(x) >= 8 /\ SubSeq(x, 1, 8) = "https://")
        IN  /\ y = IF hasScheme THEN x ELSE "https://" \o x
            /\ \A i \in 3..Len(norm) : norm[i] = y

C13_Witness ==
    /\ Len(norm) = 3
    /\ norm[1] = "https:/a.io"
    /\ norm[2] = "https://https:/a.io"
    /\ norm[3] = norm[2]

----------------------------------------------------------------------------
(* PrintStats by itself *)

MaxStats == 3

(* time.Millisecond in nanoseconds, the unit of time.Duration *)
Millisecond == 1000000

StatStatuses == {"success", "error", "timeout"}

StatDurations == {100 * Millisecond, 200 * Millisecond}

(* the fields of a Result that PrintStats reads *)
StatResults == [Status : StatStatuses, Duration : StatDurations]

StatsInit ==
    /\ NoMain
    /\ config = NoConfig
    /\ expired = FALSE
    /\ norm = <<>>
    /\ chk = NoCheck
    /\ \E l \in SeqsUpTo(StatResults, MaxStats) :
          stats = [in |-> l, pc |-> "call", out |-> <<>>]

(* mutation: only Status "error" counts as an error *)
StatsStep_ErrorOnly(acc, r) ==
    [totalTime |-> acc.totalTime + r.Duration,
     successCount |-> acc.successCount + (IF r.Status = "success" THEN 1 ELSE 0),
     errorCount |-> acc.errorCount + (IF r.Status = "error" THEN 1 ELSE 0)]

(* PrintStats: the body of the range loop *)
StatsStep(acc, r) ==
    [totalTime |-> acc.totalTime + r.Duration,
     successCount |-> acc.successCount + (IF r.Status = "success" THEN 1 ELSE 0),
     errorCount |-> acc.errorCount + (IF r.Status = "success" THEN 0 ELSE 1)]

RECURSIVE StatsLoop(_, _, _)
StatsLoop(l, i, acc) ==
    IF i > Len(l) THEN acc ELSE StatsLoop(l, i + 1, StatsStep(acc, l[i]))

(* time.Duration.Round for d >= 0: to the nearest multiple of m, halves up *)
Round(d, m) ==
    LET r == d % m
    IN  IF r + r < m THEN d - r ELSE d + m - r

(* "%.1f" of float64(s) / float64(n) * 100, in tenths of a percent *)
RateTenths(s, n) == (2000 * s + n) \div (2 * n)

(* PrintStats: nothing for an empty list, else the printed figures *)
PrintStats(l) ==
    IF Len(l) = 0
    THEN <<>>
    ELSE LET acc == StatsLoop(l, 1, [totalTime |-> 0, successCount |-> 0, errorCount |-> 0])
             avgTime == acc.totalTime \div Len(l)
         IN  << [count |-> Len(l),
                 successCount |-> acc.successCount,
                 errorCount |-> acc.errorCount,
                 avgTime |-> avgTime,
                 totalTime |-> acc.totalTime,
                 avgShown |-> Round(avgTime, Millisecond),
                 totalShown |-> Round(acc.totalTime, Millisecond),
                 rate |-> RateTenths(acc.successCount, Len(l))] >>

StatsCall ==
    /\ stats.pc = "call"
    /\ stats' = [stats EXCEPT !.pc = "done", !.out = PrintStats(stats.in)]
    /\ UNCHANGED << run, norm, chk >>

StatsNext == StatsCall

StatsSpec == StatsInit /\ [][StatsNext]_vars

RECURSIVE SumDurations(_, _)
SumDurations(l, I) ==
    IF I = {} THEN 0
    ELSE LET i == CHOOSE j \in I : TRUE
         IN  l[i].Duration + SumDurations(l, I \ {i})

(* C14: for a non-empty list PrintStats counts the Results with Status
   "success" as successes and all others as errors, the two adding up to the
   length of the list; the total is the sum of the Durations and the average
   is the total divided (as an integer number of nanoseconds) by the length;
   for [{success, 100ms}, {error, 200ms}] it prints 1 success, 1 error,
   average 150ms, total 300ms and 50.0%. *)
C14_Statistics ==
    (stats.pc = "done" /\ stats.in # <<>>) =>
        LET l == stats.in
            n == Len(l)
            o == stats.out[1]
            S == Cardinality({i \in DOMAIN l : l[i].Status = "success"})
            T == SumDurations(l, DOMAIN l)
        IN  /\ Len(stats.out) = 1
            /\ o.count = n
            /\ o.successCount = S
            /\ o.errorCount = Cardinality({i \in DOMAIN l : l[i].Status # "success"})
            /\ o.successCount + o.errorCount = n
            /\ o.totalTime = T
            /\ o.avgTime * n <= T /\ T < (o.avgTime + 1) * n
            /\ l = << [Status |-> "success", Duration |-> 100 * Millisecond],
                      [Status |-> "error", Duration |-> 200 * Millisecond] >>
               => /\ o.successCount = 1
                  /\ o.errorCount = 1
                  /\ o.avgShown = 150 * Millisecond
                  /\ o.totalShown = 300 * Millisecond
                  /\ o.rate = 500

C14_Witness ==
    /\ stats.pc = "done"
    /\ stats.in = << [Status |-> "success", Duration |-> 100 * Millisecond],
                     [Status |-> "error", Duration |-> 200 * Millisecond] >>
    /\ stats.out[1].avgShown = 150 * Millisecond
    /\ stats.out[1].rate = 500

----------------------------------------------------------------------------
(* checkURL by itself, with an integer clock counting milliseconds *)

MaxCheckRetries == 2

(* the factor of the linear backoff, in milliseconds *)
BackoffUnit == 500

(* time that may pass beyond the minimum in one step, in milliseconds *)
Ticks == {0, 100}

CheckURLs == {"https://a.io", "https://%zz"}

BoundaryCodes == {399, 400}

(* client.Do can also bring a response with a status next to the limit *)
CheckOutcomes(done) ==
    Outcomes(done) \cup
    (IF done THEN {} ELSE {[kind |-> "resp", code |-> c] : c \in BoundaryCodes})

(* mutation: the backoff is attempt * 500ms *)
Backoff_Index(attempt) == attempt * BackoffUnit

(* time.Duration(attempt+1) * 500 * time.Millisecond *)
Backoff(attempt) == (attempt + 1) * BackoffUnit

CheckInit ==
    /\ NoMain
    /\ norm = <<>>
    /\ stats = NoStats
    /\ expired = FALSE
    /\ \E r \in 0..MaxCheckRetries : config = [Concurrency |-> 1, Retries |-> r]
    /\ \E u \in CheckURLs, t \in Ticks :
          chk = [pc |-> "call", url |-> u, attempt |-> 0, lastErr |-> "",
                 result |-> NoResult, hist |-> <<>>, now |-> t, start |-> 0,
                 sleeps |-> <<>>, Duration |-> 0, Timestamp |-> 0]

(* the Result literal is completed at time me.now: Duration: time.Since(start),
   then Timestamp: time.Now() *)
Stamp(me, d) ==
    IF me.pc = "send"
    THEN [me EXCEPT !.pc = "returned", !.Duration = me.now - me.start,
                    !.Timestamp = me.now + d]
    ELSE me

(* start := time.Now(), then the loop up to the first request *)
CheckStart ==
    /\ chk.pc = "call"
    /\ \E d \in Ticks :
          chk' = Stamp(RunLoop([chk EXCEPT !.pc = "loop", !.attempt = 0,
                                           !.start = chk.now]), d)
    /\ UNCHANGED << run, norm, stats >>

(* hc.client.Do returns after some time *)
CheckAttemptEnd ==
    /\ chk.pc = "do"
    /\ \E o \in CheckOutcomes(ReqCtxDone(expired)), t \in Ticks, d \in Ticks :
          chk' = Stamp(DoStep([chk EXCEPT !.now = chk.now + t], o), d)
    /\ UNCHANGED << run, norm, stats >>

(* time.Sleep returns no earlier than after the backoff; continue *)
CheckSleepEnd ==
    /\ chk.pc = "sleep"
    /\ \E t \in Ticks, d \in Ticks :
          chk' = Stamp(RunLoop([chk EXCEPT !.pc = "loop",
                                           !.attempt = chk.attempt + 1,
                                           !.hist = Append(chk.hist, [kind |-> "sleep", code |-> 0]),
                                           !.now = chk.now + Backoff(chk.attempt) + t,
                                           !.sleeps = Append(chk.sleeps, Backoff(chk.attempt) + t)]), d)
    /\ UNCHANGED << run, norm, stats >>

(* the deadline of the context passes while the check runs *)
CheckExpire ==
    /\ chk.pc \in {"do", "sleep"}
    /\ ~expired
    /\ expired' = TRUE
    /\ UNCHANGED << urls, concurrent, retries, mainpc, exitCode, config, semCap, resultsCap,
                    semaphore, results, resultsClosed, wg, urlChan, urlCap, urlChanClosed,
                    allResults, senderpc, senderIdx, closerpc, workers, aux >>

CheckNext == CheckStart \/ CheckAttemptEnd \/ CheckSleepEnd \/ CheckExpire

CheckSpec == CheckInit /\ [][CheckNext]_vars

(* C16: the Result checkURL returns has Status "success" exactly when its
   last attempt brought a response with a status code below 400; after a
   response it carries that status code and an empty Error, with Status
   "error" from 400 on; after a last attempt without a response it has Status
   "error", a non-empty Error and StatusCode 0. *)
C16_ConsistentOutcome ==
    chk.pc = "returned" =>
        LET r == chk.result
            last == chk.hist[Len(chk.hist)]
        IN  /\ r.Status = "success" <=> (last.kind = "resp" /\ last.code < 400)
            /\ last.kind = "resp" =>
                  /\ r.StatusCode = last.code
                  /\ r.Error = ""
                  /\ last.code >= 400 => r.Status = "error"
            /\ last.kind # "resp" =>
                  /\ last.kind \in FailureKinds
                  /\ r.Status = "error"
                  /\ r.Error # ""
                  /\ r.StatusCode = 0
            /\ \/ r.Status = "success" /\ r.StatusCode \in 1..399 /\ r.Error = ""
               \/ r.Status = "error" /\ r.StatusCode >= 400 /\ r.Error = ""
               \/ r.Status = "error" /\ r.StatusCode = 0 /\ r.Error # ""
            /\ r.URL = chk.url

C16_Witness ==
    /\ chk.pc = "returned"
    /\ chk.result.StatusCode = 400
    /\ chk.result.Status = "error"
    /\ Len(chk.hist) = 3

(* C17 as stated: every failed attempt of a check that is followed by a
   further attempt is followed first by one backoff sleep, the sleep after
   the attempt with index i lasting at least (i+1) * 500ms, whatever the
   failure was, a request that could not be built included; and no sleep
   follows the last allowed attempt. *)
C17_Original ==
    chk.pc \in {"do", "sleep", "returned"} =>
        /\ \A i \in 1..(Len(chk.hist) - 1) :
              chk.hist[i].kind \in FailureKinds => chk.hist[i + 1].kind = "sleep"
        /\ \A j \in DOMAIN chk.sleeps : chk.sleeps[j] >= j * 500
        /\ chk.pc = "returned" => chk.hist[Len(chk.hist)].kind # "sleep"

(* C20: the Duration of a returned Result is the time from the start of
   checkURL to the end of its last attempt, so it covers the backoff sleeps:
   after k failed attempts each followed by its backoff it is at least
   500ms * k(k+1)/2, and at least the time slept; the Timestamp is not
   earlier than the start plus the Duration. *)
C20_DurationSpansBackoff ==
    chk.pc = "returned" =>
        LET k == Len(chk.sleeps)
        IN  /\ chk.Duration = chk.now - chk.start
            /\ 2 * chk.Duration >= 500 * k * (k + 1)
            /\ \A j \in 1..k : chk.sleeps[j] >= 500 * j
            /\ chk.Timestamp >= chk.start + chk.Duration
            /\ chk.start <= chk.now

C20_Witness ==
    /\ chk.pc = "returned"
    /\ Len(chk.sleeps) = 2
    /\ chk.Duration = 1500
    /\ chk.result.Status = "success"

====
